---- MODULE Spec2Model ----
(***************************************************************************)
(* The event bus of src/main.cpp: a FIFO queue of pending events           *)
(* (EventBus::m_queue), a singly linked list of handler nodes              *)
(* (EventBus::m_head, ListNode::value/next) and handlers that register     *)
(* themselves in their constructor and unregister in their destructor.     *)
(*                                                                         *)
(* process_queue is modelled step by step (pc), because IEventHandler::    *)
(* handle is user code that runs in the middle of the registry walk and    *)
(* may itself push events, construct handlers and destroy handlers.        *)
(***************************************************************************)
EXTENDS Naturals, Sequences, FiniteSets

\* ------------------------------------------------------------------ bounds
\* Handlers constructed in one run (each gets a fresh identity 1, 2, ...).
MaxHandlers == 3
\* Events pushed in one run (each gets a fresh identity 1, 2, ...).
MaxEvents == 2
\* The most calls of process_queue that are suspended inside handle at once.
MaxDepth == 1
\* The most direct calls of register_handler and unregister_handler, copies
\* of a handler and assignments to a handler that user code makes.
MaxRaw == 1
\* Events pushed from inside handle after MaxEvents events have been pushed.
MaxInHandle == 1

\* --------------------------------------------------------------- constants
\* nullptr
NULL == 0

RECURSIVE Pow2(_)
Pow2(x) == IF x = 0 THEN 1 ELSE 2 * Pow2(x - 1)

\* #define BIT(x) 1 << x
BIT(x) == Pow2(x)

KeyPressed == BIT(0)
KeyReleased == BIT(1)

\* The values the model passes to Event(EventType).
EventTypes == {KeyPressed, KeyReleased}
\* The values the model passes to EventHandler(int handlerSignature): one
\* that matches a single event type and one that matches both (a signature of
\* KeyPressed alone is the mirror image of KeyReleased alone).
Signatures == {KeyReleased, KeyPressed + KeyReleased}

\* Heap addresses operator new can return for a ListNode<IEventHandler>.
Nodes == 1..MaxHandlers
\* Identities of EventHandler objects, in construction order.
Handlers == 1..MaxHandlers

\* int & int on non-negative values
RECURSIVE BitAnd(_, _)
BitAnd(a, b) ==
    IF a = 0 \/ b = 0 THEN 0
    ELSE (a % 2) * (b % 2) + 2 * BitAnd(a \div 2, b \div 2)

VARIABLES
    m_head,              \* EventBus::m_head: a node address or NULL
    value,               \* ListNode::value, by node address
    next,                \* ListNode::next, by node address
    allocated,           \* node addresses between new and delete
    m_queue,             \* EventBus::m_queue: sequence of events [id, type]
    alive,               \* EventHandler objects constructed and not destroyed
    m_node,              \* EventHandler::m_node, by handler
    m_handlerSignature,  \* EventHandler::m_handlerSignature, by handler
    pc,                  \* position of the thread: "idle" (in main, outside
                         \* process_queue), "entry", "loop", "walk", "call"
                         \* (inside handle), "pop"
    event,               \* process_queue's local `event`
    tail,                \* process_queue's local `tail`
    handler,             \* process_queue's local `handler`
    status,              \* "running", "aborted" (assert failed), "segv"
    nHandlers,           \* handlers constructed so far
    nEvents,             \* events pushed so far
    log,                 \* history: the calls of handle made by the walk in
                         \* progress, in call order
    dispatched,          \* history: ids of the events whose walk has begun
    walkRemoved,         \* history: handlers unregistered from inside handle
                         \* during the walk in progress
    lastStopper,         \* history: the handler that stopped the propagation
                         \* of the latest earlier event that was stopped
    rawCall,             \* history: the direct calls of register_handler and
                         \* unregister_handler, the copies of a handler and
                         \* the assignments to a handler that user code has
                         \* made, in order
    held,                \* history: ids of the queued events that were in
                         \* the queue when process_queue returned at its
                         \* m_head test
    walkAdded,           \* history: handlers constructed from inside handle
                         \* during the walk in progress
    stack,               \* the frames of the calls of process_queue that are
                         \* suspended inside handle, outermost first
    dangling,            \* <<n, k>> while `tail` points to a node that was
                         \* deleted during the handle call in progress; n is
                         \* what the node's next field held when it was
                         \* deleted, k the number of handlers made before
    readFreed,           \* history: the walk has read a deleted node
    atCall               \* history: <<>> in main; inside process_queue, the
                         \* number of events that were pending and the number
                         \* of walks that had begun when main called it

busVars == <<m_head, value, next, allocated>>
handlerVars == <<alive, m_node, m_handlerSignature, nHandlers>>
frameVars == <<pc, event, tail, handler>>
vars == <<m_head, value, next, allocated, m_queue, alive, m_node,
          m_handlerSignature, pc, event, tail, handler, status, nHandlers,
          nEvents, log, dispatched, walkRemoved, lastStopper, rawCall, held,
          walkAdded, stack, dangling, readFreed, atCall>>

\* An event: its type (Event::m_type) and, as history, its identity and the
\* identity of the event that was being dispatched when it was pushed (0 when
\* it was pushed from main).
NoEvent == [id |-> 0, type |-> 0, during |-> 0]

Init ==
    /\ m_head = NULL
    /\ value = [n \in Nodes |-> NULL]
    /\ next = [n \in Nodes |-> NULL]
    /\ allocated = {}
    /\ m_queue = <<>>
    /\ alive = {}
    /\ m_node = [h \in Handlers |-> NULL]
    /\ m_handlerSignature = [h \in Handlers |-> 0]
    /\ pc = "idle"
    /\ event = NoEvent
    /\ tail = NULL
    /\ handler = NULL
    /\ status = "running"
    /\ nHandlers = 0
    /\ nEvents = 0
    /\ log = <<>>
    /\ dispatched = <<>>
    /\ walkRemoved = {}
    /\ lastStopper = NULL
    /\ rawCall = <<>>
    /\ held = {}
    /\ walkAdded = {}
    /\ stack = <<>>
    /\ dangling = <<>>
    /\ readFreed = FALSE
    /\ atCall = <<>>

\* User code runs in main (pc = "idle") and inside handle (pc = "call").
InUserCode == status = "running" /\ pc \in {"idle", "call"}

\* ------------------------------------------------------- the handler list
\* The nodes reached from t by following next, in order. The fuel stops the
\* walk of a list that is not NULL-terminated within the heap's size.
RECURSIVE ListFrom(_, _)
ListFrom(t, fuel) ==
    IF t = NULL \/ fuel = 0 THEN <<>>
    ELSE <<t>> \o ListFrom(next[t], fuel - 1)

\* The registry: the nodes of the list, head first.
RegistryNodes == ListFrom(m_head, MaxHandlers + 1)
\* The registry: the handlers of the list, head first.
Registry == [i \in 1..Len(RegistryNodes) |-> value[RegistryNodes[i]]]

SeqToSet(s) == {s[i] : i \in 1..Len(s)}

\* The identities of the events in the queue.
QueuedIds == {m_queue[k].id : k \in 1..Len(m_queue)}

\* register_handler's loop: while (tail->next != nullptr) tail = tail->next;
RECURSIVE LastFrom(_, _)
LastFrom(t, fuel) ==
    IF next[t] = NULL \/ fuel = 0 THEN t ELSE LastFrom(next[t], fuel - 1)

\* unregister_handler's loop: while (tail->next != node) tail = tail->next;
\* NULL stands for the loop reaching tail == nullptr, where tail->next is a
\* read through the null pointer.
RECURSIVE ParentFrom(_, _, _)
ParentFrom(t, node, fuel) ==
    IF t = NULL \/ fuel = 0 THEN NULL
    ELSE IF next[t] = node THEN t
    ELSE ParentFrom(next[t], node, fuel - 1)

\* ------------------------------------------------------------ EventBus
\* Mutant of push_to_queue: the event goes to the front of the queue.
push_to_queue_front(e) == m_queue' = <<e>> \o m_queue

\* void push_to_queue(Event&& event) { m_queue.emplace(event); }
push_to_queue(e) == m_queue' = Append(m_queue, e)

\* Mutant of register_handler: the new node becomes the head of the list.
register_handler_prepend(eventHandler, node) ==
    /\ node \in Nodes \ allocated
    /\ allocated' = allocated \cup {node}
    /\ value' = [value EXCEPT ![node] = eventHandler]
    /\ m_head' = node
    /\ next' = [next EXCEPT ![node] = m_head]

\* ListNode<IEventHandler>* register_handler(IEventHandler* eventHandler):
\* `node` is the address operator new returns; the node goes to the end of
\* the list, or becomes the head of an empty list.
register_handler(eventHandler, node) ==
    /\ node \in Nodes \ allocated
    /\ allocated' = allocated \cup {node}
    /\ value' = [value EXCEPT ![node] = eventHandler]
    /\ IF m_head = NULL
       THEN /\ m_head' = node
            /\ next' = [next EXCEPT ![node] = NULL]
       ELSE /\ m_head' = m_head
            /\ next' = [next EXCEPT ![node] = NULL,
                                    ![LastFrom(m_head, MaxHandlers)] = node]

\* Mutant of unregister_handler: tail->next = nullptr instead of node->next.
unregister_handler_truncate(node) ==
    IF m_head = NULL
    THEN /\ status' = "aborted"
         /\ UNCHANGED <<m_head, value, next, allocated>>
    ELSE LET parent == ParentFrom(m_head, node, MaxHandlers + 1) IN
         IF parent = NULL \/ node = NULL
         THEN /\ status' = "segv"
              /\ UNCHANGED <<m_head, value, next, allocated>>
         ELSE /\ next' = [next EXCEPT ![parent] = NULL, ![node] = NULL]
              /\ value' = [value EXCEPT ![node] = NULL]
              /\ allocated' = allocated \ {node}
              /\ UNCHANGED <<m_head, status>>

\* void unregister_handler(ListNode<IEventHandler>* node):
\*   assert(m_head != nullptr)              -> "aborted" on an empty list
\*   tail = m_head; while (tail->next != node) tail = tail->next;
\*                                          -> the loop never tests tail
\*                                             itself: when no node's next is
\*                                             `node` it reads nullptr->next
\*   tail->next = node->next;               -> reads node->next: a read
\*                                             through nullptr when node is
\*                                             nullptr
\*   delete node;
\* m_head is never assigned here. A read through the null pointer ends the
\* process with SIGSEGV ("segv"). The contents of a deleted node are
\* indeterminate; the model keeps NULL in both fields of a node that is not
\* allocated.
unregister_handler(node) ==
    IF m_head = NULL
    THEN /\ status' = "aborted"
         /\ UNCHANGED <<m_head, value, next, allocated>>
    ELSE LET parent == ParentFrom(m_head, node, MaxHandlers + 1) IN
         IF parent = NULL \/ node = NULL
         THEN /\ status' = "segv"
              /\ UNCHANGED <<m_head, value, next, allocated>>
         ELSE /\ next' = [next EXCEPT ![parent] = next[node], ![node] = NULL]
              /\ value' = [value EXCEPT ![node] = NULL]
              /\ allocated' = allocated \ {node}
              /\ UNCHANGED <<m_head, status>>

\* Mutant of Matches: the test of the signature is dropped.
MatchesAlways(signature, type) == TRUE

\* if (handler->get_signature() & event.get_type())
Matches(signature, type) == BitAnd(signature, type) # 0

\* Mutant of AfterHandle: the break is missing.
AfterHandleNoBreak(stop_propagation) ==
    pc' = "walk" /\ tail' = next[tail]

\* After handle returns: if (stop_propagation) break;  else tail = tail->next
AfterHandle(stop_propagation) ==
    IF stop_propagation
    THEN pc' = "pop" /\ tail' = tail
    ELSE pc' = "walk" /\ tail' = next[tail]

\* m_queue.pop();
PopEvent == m_queue' = Tail(m_queue)

\* ------------------------------------------------------------- user code
\* EventBus::get_instance().push_to_queue(Event(type))
Push(type) ==
    /\ InUserCode
    /\ nEvents < MaxEvents
    /\ nEvents' = nEvents + 1
    /\ push_to_queue([id |-> nEvents + 1, type |-> type,
                      during |-> IF pc = "call" THEN event.id ELSE 0])
    /\ UNCHANGED <<busVars, handlerVars, frameVars, status, log, dispatched,
                   walkRemoved, lastStopper, rawCall, held, walkAdded, stack,
                   dangling, readFreed, atCall>>

\* new EventHandler(signature): the constructor registers `this`.
Construct(signature, node) ==
    /\ InUserCode
    /\ nHandlers < MaxHandlers
    /\ LET h == nHandlers + 1 IN
       /\ nHandlers' = h
       /\ register_handler(h, node)
       /\ alive' = alive \cup {h}
       /\ m_node' = [m_node EXCEPT ![h] = node]
       /\ m_handlerSignature' = [m_handlerSignature EXCEPT ![h] = signature]
       /\ walkAdded' = IF pc = "call" THEN walkAdded \cup {h} ELSE walkAdded
    /\ UNCHANGED <<m_queue, frameVars, status, nEvents, log, dispatched,
                   walkRemoved, lastStopper, rawCall, held, stack, dangling,
                   readFreed, atCall>>

\* delete h: ~EventHandler() calls unregister_handler(m_node).
\* delete node (line 105), seen from the calls of process_queue that are
\* suspended: a frame whose tail is the deleted node is left with a dangling
\* tail.
Deleted(node) ==
    [i \in 1..Len(stack) |->
        IF stack[i].tail = node
        THEN [stack[i] EXCEPT !.dangling = <<next[node], nHandlers>>]
        ELSE stack[i]]

Destroy(h) ==
    /\ InUserCode
    /\ h \in alive
    /\ unregister_handler(m_node[h])
    /\ IF status' = "running"
       THEN /\ alive' = alive \ {h}
            /\ m_node' = [m_node EXCEPT ![h] = NULL]
            /\ m_handlerSignature' = [m_handlerSignature EXCEPT ![h] = 0]
       ELSE UNCHANGED <<alive, m_node, m_handlerSignature>>
    /\ walkRemoved' = IF pc = "call" /\ status' = "running"
                      THEN walkRemoved \cup {h} ELSE walkRemoved
    /\ walkAdded' = IF status' = "running" THEN walkAdded \ {h} ELSE walkAdded
    /\ dangling' = IF pc = "call" /\ m_node[h] = tail /\ status' = "running"
                   THEN <<next[tail], nHandlers>> ELSE dangling
    /\ stack' = IF status' = "running" THEN Deleted(m_node[h]) ELSE stack
    /\ UNCHANGED <<m_queue, nHandlers, frameVars, nEvents, log, dispatched,
                   lastStopper, rawCall, held, readFreed, atCall>>

\* A handler destroyed from main, or from inside handle by a handler other
\* than the one being destroyed.
DestroyOther(h) ==
    /\ (pc = "call" => h # handler)
    /\ Destroy(h)

\* delete this, inside handle.
DestroySelf(h) ==
    /\ pc = "call"
    /\ h = handler
    /\ Destroy(h)

\* ---------------------------------------------------------- process_queue
\* main calls EventBus::get_instance().process_queue()
CallProcessQueue ==
    /\ status = "running"
    /\ pc = "idle"
    /\ pc' = "entry"
    /\ atCall' = <<[pending |-> Len(m_queue), walks |-> Len(dispatched)]>>
    /\ UNCHANGED <<busVars, m_queue, handlerVars, event, tail, handler,
                   status, nEvents, log, dispatched, walkRemoved, lastStopper,
                   rawCall, held, walkAdded, stack, dangling, readFreed>>

\* process_queue returns: to main, or to the handle call that called it,
\* whose process_queue frame (event, tail, handler) is live again.
Leave ==
    IF stack = <<>>
    THEN /\ pc' = "idle"
         /\ event' = NoEvent
         /\ tail' = NULL
         /\ handler' = NULL
         /\ atCall' = <<>>
         /\ UNCHANGED <<log, walkRemoved, walkAdded, stack, dangling>>
    ELSE LET frame == stack[Len(stack)] IN
         /\ pc' = "call"
         /\ event' = frame.event
         /\ tail' = frame.tail
         /\ handler' = frame.handler
         /\ log' = frame.log
         /\ walkRemoved' = frame.walkRemoved
         /\ walkAdded' = frame.walkAdded
         /\ dangling' = frame.dangling
         /\ stack' = SubSeq(stack, 1, Len(stack) - 1)
         /\ atCall' = atCall

\* Mutant of PQEntry: the early return discards the pending events.
PQEntryDiscard ==
    /\ status = "running"
    /\ pc = "entry"
    /\ IF m_head = NULL
       THEN /\ Leave
            /\ m_queue' = <<>>
            /\ held' = held \cup QueuedIds
       ELSE /\ pc' = "loop"
            /\ UNCHANGED <<m_queue, held, event, tail, handler, log,
                           walkRemoved, walkAdded, stack, dangling, atCall>>
    /\ UNCHANGED <<busVars, handlerVars, status, nEvents, dispatched,
                   lastStopper, rawCall, readFreed>>

\* if (m_head == nullptr) { return; }
PQEntry ==
    /\ status = "running"
    /\ pc = "entry"
    /\ IF m_head = NULL
       THEN /\ Leave
            /\ held' = held \cup QueuedIds
       ELSE /\ pc' = "loop"
            /\ UNCHANGED <<held, event, tail, handler, log, walkRemoved,
                           walkAdded, stack, dangling, atCall>>
    /\ UNCHANGED <<busVars, m_queue, handlerVars, status, nEvents, dispatched,
                   lastStopper, rawCall, readFreed>>

\* Mutant of PQLoop: the loop does not test m_queue.empty().
PQLoopNoTest ==
    /\ status = "running"
    /\ pc = "loop"
    /\ pc' = "walk"
    /\ event' = IF m_queue = <<>> THEN NoEvent ELSE Head(m_queue)
    /\ tail' = m_head
    /\ dispatched' = Append(dispatched, event'.id)
    /\ walkRemoved' = {}
    /\ walkAdded' = {}
    /\ handler' = NULL
    /\ UNCHANGED <<busVars, m_queue, handlerVars, status, nEvents, log,
                   lastStopper, rawCall, held, stack, dangling, readFreed, atCall>>

\* Mutant of PQLoop: the loop ends at the first event that was pushed from
\* inside handle.
PQLoopSnapshot ==
    /\ status = "running"
    /\ pc = "loop"
    /\ IF m_queue = <<>> \/ Head(m_queue).during # 0
       THEN /\ Leave
            /\ UNCHANGED dispatched
       ELSE /\ pc' = "walk"
            /\ event' = Head(m_queue)
            /\ tail' = m_head
            /\ handler' = NULL
            /\ dispatched' = Append(dispatched, Head(m_queue).id)
            /\ walkRemoved' = {}
            /\ walkAdded' = {}
            /\ UNCHANGED <<log, stack, dangling, atCall>>
    /\ UNCHANGED <<busVars, m_queue, handlerVars, status, nEvents,
                   lastStopper, rawCall, held, readFreed>>

\* while (!m_queue.empty()) { auto event = m_queue.front(); auto tail = m_head;
PQLoop ==
    /\ status = "running"
    /\ pc = "loop"
    /\ IF m_queue = <<>>
       THEN /\ Leave
            /\ UNCHANGED dispatched
       ELSE /\ pc' = "walk"
            /\ event' = Head(m_queue)
            /\ tail' = m_head
            /\ handler' = NULL
            /\ dispatched' = Append(dispatched, Head(m_queue).id)
            /\ walkRemoved' = {}
            /\ walkAdded' = {}
            /\ UNCHANGED <<log, stack, dangling, atCall>>
    /\ UNCHANGED <<busVars, m_queue, handlerVars, status, nEvents,
                   lastStopper, rawCall, held, readFreed>>

\* while (tail != nullptr) { auto handler = tail->value;
\*   if (handler->get_signature() & event.get_type()) { handler->handle(event)
\*   ... } tail = tail->next; }
PQWalk ==
    /\ status = "running"
    /\ pc = "walk"
    /\ (tail # NULL => value[tail] \in alive)
    /\ IF tail = NULL
       THEN /\ pc' = "pop"
            /\ UNCHANGED <<tail, handler, log>>
       ELSE IF Matches(m_handlerSignature[value[tail]], event.type)
            THEN /\ pc' = "call"
                 /\ handler' = value[tail]
                 /\ tail' = tail
                 /\ log' = Append(log, [ev |-> event.id, type |-> event.type,
                                        h |-> value[tail],
                                        sig |-> m_handlerSignature[value[tail]],
                                        ret |-> "pending"])
            ELSE /\ pc' = "walk"
                 /\ handler' = NULL
                 /\ tail' = next[tail]
                 /\ log' = log
    /\ UNCHANGED <<busVars, m_queue, handlerVars, event, status, nEvents,
                   dispatched, walkRemoved, lastStopper, rawCall, held,
                   walkAdded, stack, dangling, readFreed, atCall>>

\* handle returns stop_propagation to process_queue; `tail` points to a node
\* of the list, or the walk ends here and `tail` is not read again.
Return(stop_propagation) ==
    /\ status = "running"
    /\ pc = "call"
    /\ (stop_propagation \/ dangling = <<>>)
    /\ dangling' = <<>>
    /\ AfterHandle(stop_propagation)
    /\ handler' = NULL
    /\ log' = [log EXCEPT ![Len(log)].ret =
                   IF stop_propagation THEN "stop" ELSE "continue"]
    /\ UNCHANGED <<busVars, m_queue, handlerVars, event, status, nEvents,
                   dispatched, walkRemoved, lastStopper, rawCall, held,
                   walkAdded, stack, readFreed, atCall>>

\* m_queue.pop(); }   (on a queue that holds the event that was walked; a
\* pop of an empty queue is PopEmpty)
PQPop ==
    /\ status = "running"
    /\ pc = "pop"
    /\ m_queue # <<>>
    /\ PopEvent
    /\ pc' = "loop"
    /\ event' = NoEvent
    /\ tail' = NULL
    /\ walkRemoved' = {}
    /\ walkAdded' = {}
    /\ held' = held \ {event.id}
    /\ log' = <<>>
    /\ lastStopper' = IF log # <<>> /\ log[Len(log)].ret = "stop"
                      THEN log[Len(log)].h ELSE lastStopper
    /\ UNCHANGED <<busVars, handlerVars, handler, status, nEvents, dispatched,
                   rawCall, stack, dangling, readFreed, atCall>>

Next ==
    \/ \E type \in EventTypes : Push(type)
    \/ \E signature \in Signatures, node \in Nodes : Construct(signature, node)
    \/ \E h \in Handlers : DestroyOther(h)
    \/ CallProcessQueue
    \/ PQEntry
    \/ PQLoop
    \/ PQWalk
    \/ \E stop_propagation \in BOOLEAN : Return(stop_propagation)
    \/ PQPop

Spec == Init /\ [][Next]_vars

TypeOK ==
    /\ m_head \in Nodes \cup {NULL}
    /\ allocated \subseteq Nodes
    /\ alive \subseteq Handlers
    /\ pc \in {"idle", "entry", "loop", "walk", "call", "pop"}
    /\ status \in {"running", "aborted", "segv", "undefined"}
    /\ Len(stack) <= MaxDepth
    /\ Len(rawCall) <= MaxRaw
    /\ Len(atCall) <= 1
    /\ Len(m_queue) <= MaxEvents + MaxInHandle
    /\ held \subseteq 1..(MaxEvents + MaxInHandle)
    /\ walkAdded \subseteq Handlers
    /\ Len(dangling) \in {0, 2}
    /\ readFreed \in BOOLEAN

\* --------------------------------- the visited node is deleted inside handle
\* handle has deleted the node `tail` points to (by `delete this`, by deleting
\* a copy of the handler, or by a direct unregister_handler) and returns
\* false: the walk executes tail = tail->next on the deleted node. The read is
\* undefined behaviour: it yields what the node held when it was deleted (the
\* walk goes on from the node's old successor), or a null pointer (the walk
\* ends), or, when the address has been given to a new node since, that
\* node's successor, or, when it has been given to an EventHandler made since
\* (ListNode::next and EventHandler::m_node are both at offset 8), that
\* handler's m_node (the walk goes on at the node m_node points to), or it
\* ends the process, or anything else.
\* dangling = <<the node's successor when it was deleted, the number of
\* handlers made before it was deleted>>.
ReturnDangling ==
    /\ status = "running"
    /\ pc = "call"
    /\ dangling # <<>>
    /\ readFreed' = TRUE
    /\ \/ /\ tail' \in {dangling[1], NULL} \cup
                      (IF tail \in allocated THEN {next[tail]} ELSE {}) \cup
                      {m_node[h] : h \in {g \in alive : g > dangling[2]}}
          /\ pc' = "walk"
          /\ status' = status
       \/ /\ status' \in {"segv", "undefined"}
          /\ UNCHANGED <<pc, tail>>
    /\ dangling' = <<>>
    /\ handler' = NULL
    /\ log' = [log EXCEPT ![Len(log)].ret = "continue"]
    /\ UNCHANGED <<busVars, m_queue, handlerVars, event, nEvents, dispatched,
                   walkRemoved, lastStopper, rawCall, held, walkAdded, stack,
                   atCall>>

\* The walk reaches a node that has been deleted, or a node whose handler has
\* been deleted (a node added by a direct register_handler outlives its
\* handler): tail->value is read from freed memory, or
\* handler->get_signature() is a virtual call on a deleted object. Undefined
\* behaviour: the call faults, or yields a value that does not match and the
\* walk moves on, or the process goes on in a state the program does not
\* define.
PQWalkDeadHandler ==
    /\ status = "running"
    /\ pc = "walk"
    /\ tail # NULL
    /\ value[tail] \notin alive
    /\ readFreed' = (readFreed \/ tail \notin allocated)
    /\ \/ /\ status' \in {"segv", "undefined"}
          /\ tail' = tail
       \/ /\ status' = status
          /\ tail' = next[tail]
    /\ UNCHANGED <<busVars, m_queue, handlerVars, pc, event, handler, nEvents,
                   log, dispatched, walkRemoved, lastStopper, rawCall, held,
                   walkAdded, stack, dangling, atCall>>

NextSelfDestroy ==
    \/ Next
    \/ \E h \in Handlers : DestroySelf(h)
    \/ ReturnDangling
    \/ PQWalkDeadHandler

SpecSelfDestroy == Init /\ [][NextSelfDestroy]_vars

\* ------------------------------------- one more event, pushed inside handle
\* EventBus::get_instance().push_to_queue(Event(type)) from inside handle,
\* after MaxEvents events have been pushed: the event goes behind the event
\* being dispatched and behind the events that are queued after it.
PushInHandle(type) ==
    /\ InUserCode
    /\ pc = "call"
    /\ nEvents >= MaxEvents
    /\ nEvents < MaxEvents + MaxInHandle
    /\ nEvents' = nEvents + 1
    /\ push_to_queue([id |-> nEvents + 1, type |-> type, during |-> event.id])
    /\ UNCHANGED <<busVars, handlerVars, frameVars, status, log, dispatched,
                   walkRemoved, lastStopper, rawCall, held, walkAdded, stack,
                   dangling, readFreed, atCall>>

NextPush ==
    \/ NextSelfDestroy
    \/ \E type \in EventTypes : PushInHandle(type)

SpecPush == Init /\ [][NextPush]_vars

\* ------------------------------------------------- direct calls of the bus
\* EventBus overrides register_handler and unregister_handler in its public
\* section, so user code (main, or handle) can call them itself.
\* EventBus::get_instance().unregister_handler(node) with any pointer: the
\* node of a live handler, a deleted node, nullptr.
RawUnregister(node) ==
    /\ InUserCode
    /\ Len(rawCall) < MaxRaw
    /\ unregister_handler(node)
    /\ rawCall' = Append(rawCall, <<"unregister_handler", node>>)
    /\ dangling' = IF pc = "call" /\ node = tail /\ status' = "running"
                   THEN <<next[tail], nHandlers>> ELSE dangling
    /\ stack' = IF status' = "running" THEN Deleted(node) ELSE stack
    /\ UNCHANGED <<m_queue, handlerVars, frameVars, nEvents, log, dispatched,
                   walkRemoved, lastStopper, held, walkAdded,
                   readFreed, atCall>>

\* EventBus::get_instance().register_handler(h) for any pointer h user code
\* holds (a live handler, a handler already deleted, or nullptr): the list
\* gets one more node for h; the node returned is not h's m_node (m_node is
\* private and set by the constructor only).
RawRegister(h, node) ==
    /\ InUserCode
    /\ Len(rawCall) < MaxRaw
    /\ h \in (1..nHandlers) \cup {NULL}
    /\ register_handler(h, node)
    /\ rawCall' = Append(rawCall, <<"register_handler", h>>)
    /\ UNCHANGED <<m_queue, handlerVars, frameVars, status, nEvents, log,
                   dispatched, walkRemoved, lastStopper, held,
                   walkAdded, stack, dangling, readFreed, atCall>>

\* EventHandler(const EventHandler&), implicitly defined: the new handler has
\* h's m_node and signature and is not registered.
CopyConstruct(h) ==
    /\ InUserCode
    /\ Len(rawCall) < MaxRaw
    /\ h \in alive
    /\ nHandlers < MaxHandlers
    /\ rawCall' = Append(rawCall, <<"copy", h>>)
    /\ nHandlers' = nHandlers + 1
    /\ alive' = alive \cup {nHandlers + 1}
    /\ m_node' = [m_node EXCEPT ![nHandlers + 1] = m_node[h]]
    /\ m_handlerSignature' =
          [m_handlerSignature EXCEPT ![nHandlers + 1] = m_handlerSignature[h]]
    /\ UNCHANGED <<busVars, m_queue, frameVars, status, nEvents, log,
                   dispatched, walkRemoved, lastStopper, held,
                   walkAdded, stack, dangling, readFreed, atCall>>

\* *to = *from with the implicitly defined EventHandler::operator=: `to`
\* takes from's m_node and signature; the list is not touched.
CopyAssign(to, from) ==
    /\ InUserCode
    /\ Len(rawCall) < MaxRaw
    /\ to \in alive
    /\ from \in alive
    /\ to # from
    /\ rawCall' = Append(rawCall, <<"assign", to, from>>)
    /\ m_node' = [m_node EXCEPT ![to] = m_node[from]]
    /\ m_handlerSignature' =
          [m_handlerSignature EXCEPT ![to] = m_handlerSignature[from]]
    /\ UNCHANGED <<busVars, m_queue, alive, nHandlers, frameVars, status,
                   nEvents, log, dispatched, walkRemoved, lastStopper, held,
                   walkAdded, stack, dangling, readFreed, atCall>>

NextRaw ==
    \/ Next
    \/ \E node \in Nodes \cup {NULL} : RawUnregister(node)
    \/ \E h \in Handlers \cup {NULL}, node \in Nodes : RawRegister(h, node)
    \/ \E h \in Handlers : CopyConstruct(h)
    \/ \E to \in Handlers, from \in Handlers : CopyAssign(to, from)
    \/ PQWalkDeadHandler
    \/ ReturnDangling

SpecRaw == Init /\ [][NextRaw]_vars

\* --------------------------------------- process_queue called inside handle
\* handle calls EventBus::get_instance().process_queue(): the frame of the
\* call of process_queue that called handle is suspended.
CallNested ==
    /\ InUserCode
    /\ pc = "call"
    /\ Len(stack) < MaxDepth
    /\ stack' = Append(stack, [event |-> event, tail |-> tail,
                               handler |-> handler, log |-> log,
                               walkRemoved |-> walkRemoved,
                               walkAdded |-> walkAdded,
                               dangling |-> dangling])
    /\ pc' = "entry"
    /\ event' = NoEvent
    /\ tail' = NULL
    /\ handler' = NULL
    /\ log' = <<>>
    /\ walkRemoved' = {}
    /\ walkAdded' = {}
    /\ dangling' = <<>>
    /\ UNCHANGED <<busVars, m_queue, handlerVars, status, nEvents, dispatched,
                   lastStopper, rawCall, held, readFreed, atCall>>

\* m_queue.pop() on an empty queue (std::queue over std::deque): undefined
\* behaviour. A build with container assertions aborts; otherwise the deque's
\* bookkeeping is corrupted and the process faults or goes on in a state the
\* program does not define.
PopEmpty ==
    /\ status = "running"
    /\ pc = "pop"
    /\ m_queue = <<>>
    /\ status' \in {"aborted", "segv", "undefined"}
    /\ UNCHANGED <<busVars, m_queue, handlerVars, frameVars, nEvents, log,
                   dispatched, walkRemoved, lastStopper, rawCall, held,
                   walkAdded, stack, dangling, readFreed, atCall>>

NextReentrant ==
    \/ Next
    \/ CallNested
    \/ PopEmpty
    \/ ReturnDangling
    \/ PQWalkDeadHandler

SpecReentrant == Init /\ [][NextReentrant]_vars

\* ------------------- handlers that neither push nor construct inside handle
PushFromMain(type) == pc = "idle" /\ Push(type)

ConstructFromMain(signature, node) == pc = "idle" /\ Construct(signature, node)

\* The steps of process_queue itself, and the return of handle.
ProcessQueueStep ==
    \/ PQEntry
    \/ PQLoop
    \/ PQWalk
    \/ \E stop_propagation \in BOOLEAN : Return(stop_propagation)
    \/ PQPop

NextQuiet ==
    \/ \E type \in EventTypes : PushFromMain(type)
    \/ \E signature \in Signatures, node \in Nodes :
          ConstructFromMain(signature, node)
    \/ \E h \in Handlers : DestroyOther(h)
    \/ CallProcessQueue
    \/ ProcessQueueStep

SpecQuiet == Init /\ [][NextQuiet]_vars

\* process_queue and handle are ordinary sequential code: once called they
\* keep executing.
SpecQuietFair == SpecQuiet /\ WF_vars(ProcessQueueStep)

\* ================================================================ claims
\* The handlers handle was called on by the walk in progress.
Invoked == {log[i].h : i \in 1..Len(log)}
\* The handlers that returned stop_propagation = true in the walk in progress.
Stoppers == {log[i].h : i \in {k \in 1..Len(log) : log[k].ret = "stop"}}
\* h was reached by the walk: no handler registered before it stopped the
\* propagation. Handler identities are given in construction order, and the
\* constructor registers, so h1 < h2 says h1 was registered before h2.
NotCutOff(h) == \A s \in Stoppers : ~(s < h)
TimesInvoked(h) == Cardinality({i \in 1..Len(log) : log[i].h = h})

\* The list is NULL-terminated and holds each live handler's node once.
RegistryWellFormed ==
    /\ Len(RegistryNodes) <= MaxHandlers
    /\ SeqToSet(RegistryNodes) = allocated
    /\ SeqToSet(Registry) = alive
    /\ \A h \in alive : m_node[h] \in allocated /\ value[m_node[h]] = h
    /\ Cardinality(allocated) = Len(RegistryNodes)

\* C1: the handlers invoked for one event are invoked in the order in which
\* they were registered: of two calls of handle in one walk, the earlier one
\* is on the handler registered earlier (the one with the smaller identity).
C1_DispatchInRegistrationOrder ==
    \A i, j \in 1..Len(log) : i < j => log[i].h < log[j].h

\* C1 witness: a walk has called handle on two handlers.
C1_Witness ==
    /\ Len(log) >= 2
    /\ log[1].h < log[2].h
    /\ log[1].ret = "continue"

\* C2 (as claimed): an unregistration by a destructor always completes
\* normally, whatever the handler's position in the registry, and a handler
\* that is no longer alive is never inside handle.
C2_UnregisterCompletesAndSilences ==
    /\ status = "running"
    /\ (pc = "call" => handler \in alive)

\* The part of C2 that the code keeps: handle is only ever called on a live
\* handler (in runs where handlers do not destroy themselves inside handle).
UnregisteredNeverInvoked == pc = "call" => handler \in alive

\* C3: a handler that returns true ends the walk of this event, so no call of
\* handle follows a stop in the same walk; the stop does not reach later
\* events: when a walk ends, every live handler that matches the event and
\* is not registered after a handler that stopped this event was invoked.
C3_StopEndsThisWalkOnly ==
    /\ \A i \in 1..Len(log) : log[i].ret = "stop" => i = Len(log)
    /\ (pc \in {"walk", "call"} => Stoppers = {})
    /\ (pc = "pop" =>
          \A h \in alive :
              (BitAnd(m_handlerSignature[h], event.type) # 0 /\ NotCutOff(h))
                  => h \in Invoked)

\* C3 witness: an earlier event was stopped by a handler; the walk of a later
\* event has called that handler again and then a handler registered after it.
C3_Witness ==
    /\ pc = "pop"
    /\ lastStopper # NULL
    /\ Len(log) >= 2
    /\ log[1].h = lastStopper
    /\ log[2].h > lastStopper

\* Events are dispatched in the order they were pushed when no handler calls
\* process_queue (event identities are given in push order): the walks begin
\* in increasing order of identity, every call of handle in the walk in
\* progress is for the event whose walk began last, and every event still
\* queued behind it was pushed later.
FifoDispatchWithoutNesting ==
    /\ \A i, j \in 1..Len(dispatched) : i < j => dispatched[i] < dispatched[j]
    /\ \A i \in 1..Len(log) :
          dispatched # <<>> /\ log[i].ev = dispatched[Len(dispatched)]
    /\ \A k \in 1..Len(m_queue) : \A i \in 1..Len(dispatched) :
          m_queue[k].id >= dispatched[i]

\* C4 (as claimed): an event is dispatched to completion before an event
\* pushed after it begins (event identities are given in push order): when
\* handle is called for an event, the walk of no event pushed later has begun.
C4_FifoDispatch ==
    [][(pc = "walk" /\ pc' = "call") =>
          \A i \in 1..Len(dispatched) : dispatched[i] <= event.id]_vars

\* C5 (as claimed): whenever process_queue returns, the queue is empty.
C5_QueueEmptyOnReturn ==
    [][(pc \in {"entry", "loop"} /\ pc' = "idle") => m_queue' = <<>>]_vars

\* C6 (as claimed): no event is dispatched twice: no event's walk begins twice, no handler
\* is called twice in one walk, and an event whose walk has begun is in the
\* queue only while that walk is in progress.
C6_NoEventDispatchedTwice ==
    /\ \A i, j \in 1..Len(dispatched) : i < j => dispatched[i] # dispatched[j]
    /\ \A i, j \in 1..Len(log) :
          i < j => ~(log[i].ev = log[j].ev /\ log[i].h = log[j].h)
    /\ \A k \in 1..Len(m_queue) :
          m_queue[k].id \in SeqToSet(dispatched)
              => /\ k = 1
                 /\ pc \in {"walk", "call", "pop"}
                 /\ event = m_queue[k]

\* C7: when a handler's handle has unregistered an entry that is neither the
\* first entry nor the entry being visited, every handler still registered at
\* the end of the walk that matches the event and was not cut off by a stop
\* was invoked exactly once, and no handler was invoked twice.
C7_RemovalInWalkKeepsDelivery ==
    (pc = "pop" /\ walkRemoved # {}) =>
        /\ \A h \in alive :
              (BitAnd(m_handlerSignature[h], event.type) # 0 /\ NotCutOff(h))
                  => TimesInvoked(h) = 1
        /\ \A h \in Invoked : TimesInvoked(h) = 1

\* C7 witness: a walk has ended in which an entry between two invoked
\* handlers was unregistered from inside handle.
C7_Witness ==
    /\ pc = "pop"
    /\ \E r \in walkRemoved : \E i, j \in 1..Len(log) :
          /\ log[i].h < r
          /\ r < log[j].h
          /\ r \notin Invoked

\* C8 (as claimed): unregister_handler with a node that is not in the
\* registry ends the process by the assertion, with the registry untouched.
C8_AbsentNodeAbortsByAssertion ==
    [][\A node \in Nodes \cup {NULL} :
          (node \notin SeqToSet(RegistryNodes) /\ RawUnregister(node))
              => (status' = "aborted" /\ UNCHANGED busVars)]_vars

\* The registry with one node taken out.
RECURSIVE Without(_, _)
Without(s, x) ==
    IF s = <<>> THEN <<>>
    ELSE IF Head(s) = x THEN Without(Tail(s), x)
    ELSE <<Head(s)>> \o Without(Tail(s), x)

\* C9 (as claimed): unregistering a registered handler removes exactly its
\* entry: the other entries keep their node, their handler and their order,
\* and the queue is unchanged.
C9_UnregisterRemovesExactlyThatEntry ==
    [][\A h \in Handlers :
          Destroy(h) =>
              /\ RegistryNodes' = Without(RegistryNodes, m_node[h])
              /\ \A n \in SeqToSet(RegistryNodes') : value'[n] = value[n]
              /\ m_queue' = m_queue]_vars

\* The part of C9 that the code keeps: an unregistration that returns has
\* removed exactly that entry.
UnregisterThatReturnsIsExact ==
    [][\A h \in Handlers :
          (Destroy(h) /\ status' = "running") =>
              /\ RegistryNodes' = Without(RegistryNodes, m_node[h])
              /\ Len(RegistryNodes') = Len(RegistryNodes) - 1
              /\ \A n \in SeqToSet(RegistryNodes') : value'[n] = value[n]
              /\ m_queue' = m_queue]_vars

\* C10: handle is called only on a handler whose signature shares a bit with
\* the event's type; a handler that shares none is skipped, and skipping it
\* does not end the walk: when a walk ends that no handler stopped, the live
\* handlers that were invoked are exactly those that match.
C10_OnlyMatchingHandlersInvoked ==
    /\ \A i \in 1..Len(log) : BitAnd(log[i].sig, log[i].type) # 0
    /\ \A h \in Invoked \cap alive :
          BitAnd(m_handlerSignature[h], event.type) # 0
    /\ (pc = "pop" /\ Stoppers = {}) =>
          \A h \in alive :
              BitAnd(m_handlerSignature[h], event.type) # 0 => h \in Invoked

\* C10 witness: a walk that skipped a handler with no bit in common with the
\* event and then invoked a handler registered after it.
C10_Witness ==
    /\ pc = "pop"
    /\ \E h \in alive : \E i \in 1..Len(log) :
          /\ BitAnd(m_handlerSignature[h], event.type) = 0
          /\ h < log[i].h
          /\ h \notin Invoked

\* C11 (as claimed): the registry holds exactly the live handlers: every handler that is
\* constructed and not destroyed is the value of exactly one node of the list,
\* every node of the list is allocated and holds a live handler, and the list
\* ends in NULL.
C11_RegistryIsTheLiveHandlers ==
    /\ Len(RegistryNodes) <= MaxHandlers
    /\ \A h \in alive :
          Cardinality({i \in 1..Len(Registry) : Registry[i] = h}) = 1
    /\ \A i \in 1..Len(Registry) :
          RegistryNodes[i] \in allocated /\ Registry[i] \in alive
    /\ \A h \in alive : m_node[h] \in SeqToSet(RegistryNodes)

\* C12: a push appends the new event at the back of the queue and changes
\* nothing else: the events already queued keep their places, the registry
\* and the handlers are unchanged, handle is not called and the thread stays
\* where it is. (nEvents counts the calls of push_to_queue.)
C12_PushOnlyAppends ==
    [][nEvents' # nEvents =>
          /\ Len(m_queue') = Len(m_queue) + 1
          /\ SubSeq(m_queue', 1, Len(m_queue)) = m_queue
          /\ m_queue'[Len(m_queue')].id = nEvents'
          /\ UNCHANGED <<busVars, handlerVars, frameVars, log, dispatched,
                         status>>]_vars

\* C12 witness: an event was pushed behind an event that was already queued.
C12_Witness ==
    /\ Len(m_queue) = 2
    /\ m_queue[1].id = 1
    /\ m_queue[2].id = 2

\* C13: process_queue called on an empty queue returns without calling
\* handle, without beginning a walk and without changing the registry, the
\* handlers or the queue; and the queue is never popped while it is empty.
C13_EmptyQueueIsNoOp ==
    /\ [][(pc \in {"entry", "loop"} /\ m_queue = <<>>) =>
             /\ pc' = IF pc = "entry" /\ m_head # NULL THEN "loop" ELSE "idle"
             /\ UNCHANGED <<busVars, m_queue, handlerVars, log, dispatched,
                            status>>]_vars
    /\ [](pc = "pop" => m_queue # <<>>)

\* C13 witness: process_queue was called with handlers registered and nothing
\* ever pushed, and has reached its loop test.
C13_Witness ==
    /\ pc = "loop"
    /\ nEvents = 0
    /\ m_queue = <<>>
    /\ Cardinality(alive) >= 2

\* C16: process_queue called while no handler is registered returns without
\* touching the queue, so the pending events stay queued; an event leaves the
\* queue only at the end of its walk; and a call of process_queue made while
\* a handler is registered enters the loop and returns only when the queue is
\* empty, so every event that was kept has been walked by then.
C16_PendingEventsKeptWithoutHandler ==
    /\ [][(pc = "entry" /\ m_head = NULL) =>
              pc' = "idle" /\ m_queue' = m_queue /\ dispatched' = dispatched]_vars
    /\ [](held \subseteq QueuedIds)
    /\ [](QueuedIds \cup SeqToSet(dispatched) = 1..nEvents)
    /\ [][(pc = "entry" /\ m_head # NULL) => pc' = "loop"]_vars
    /\ [][(pc \in {"loop", "walk", "call", "pop"} /\ pc' = "idle") =>
              m_queue = <<>> /\ held = {}]_vars

\* C16 witness: handle is running for an event that was pending when an
\* earlier process_queue returned because no handler was registered.
C16_Witness ==
    /\ pc = "call"
    /\ event.id \in held
    /\ handler \in alive

\* C17: an event pushed from inside handle goes behind the event being
\* dispatched and every event pushed before it, and process_queue does not
\* return while such an event is queued: outside process_queue no queued event
\* was pushed from inside handle.
C17_PushedInHandleDispatchedInSameCall ==
    /\ \A k \in 1..Len(m_queue) :
          m_queue[k].during # 0 =>
              /\ pc \in {"loop", "walk", "call", "pop"}
              /\ m_queue[k].during < m_queue[k].id
              /\ m_queue[k].during \in SeqToSet(dispatched)
              /\ \A j \in 1..Len(m_queue) : j < k <=> m_queue[j].id < m_queue[k].id
    /\ (pc \in {"walk", "call"} /\ status = "running") => Head(m_queue) = event

\* C17 witness: handle is running for an event that was pushed from inside
\* handle while the first event was being dispatched and the second was
\* queued behind it; the second event was dispatched in between.
C17_Witness ==
    /\ pc = "call"
    /\ event.id = 3
    /\ event.during = 1
    /\ dispatched = <<1, 2, 3>>
    /\ handler \in alive

\* C18: a handler constructed from inside handle is appended at the tail of
\* the registry (the registry is in construction order), and when the walk
\* during which it was constructed ends, it was invoked exactly once for the
\* event of that walk if it matches the event and no handler before it
\* stopped the propagation.
C18_HandlerAddedInWalkIsInvoked ==
    /\ \A i, j \in 1..Len(Registry) : i < j => Registry[i] < Registry[j]
    /\ \A h \in walkAdded :
          /\ h \in alive
          /\ pc \in {"walk", "call", "pop"}
          /\ \A i \in 1..Len(log) : log[i].h = h => log[i].ev = event.id
          /\ (pc = "pop" /\ BitAnd(m_handlerSignature[h], event.type) # 0
                /\ NotCutOff(h)) => TimesInvoked(h) = 1

\* C18 witness: handle is running on a handler that was constructed from
\* inside handle earlier in the same walk.
C18_Witness ==
    /\ pc = "call"
    /\ handler \in walkAdded
    /\ Len(log) >= 2

\* C14 (as claimed): when a handler deletes itself inside its own handle and
\* returns false, the walk never reads a deleted node, and at the end of the
\* walk every handler still registered that matches the event and was not
\* cut off by a stop was invoked exactly once.
C14_SelfDestroyInHandleIsSafe ==
    /\ ~readFreed
    /\ (pc = "pop" /\ \E i \in 1..Len(log) :
                         log[i].h \notin alive /\ log[i].ret = "continue") =>
          \A h \in alive :
              (BitAnd(m_handlerSignature[h], event.type) # 0 /\ NotCutOff(h))
                  => TimesInvoked(h) = 1

\* C15 (as claimed): with process_queue called from inside handle, no event's
\* walk begins twice and pop is never reached with an empty queue.
C15_ReentrantDispatchIsSafe ==
    /\ \A i, j \in 1..Len(dispatched) : i < j => dispatched[i] # dispatched[j]
    /\ (pc = "pop" => m_queue # <<>>)
    /\ status # "undefined"

\* The nodes the walk in progress has still to visit.
Remaining == Len(ListFrom(tail, MaxHandlers + 1))

\* The list reachable from m_head ends at nullptr and holds no node twice.
Acyclic ==
    /\ Len(RegistryNodes) <= MaxHandlers
    /\ \A i, j \in 1..Len(RegistryNodes) :
          i # j => RegistryNodes[i] # RegistryNodes[j]

\* Every step of a walk that moves `tail` leaves fewer nodes to visit, and no
\* step of a walk leaves more.
WalkShrinks ==
    (pc \in {"walk", "call"} /\ pc' \in {"walk", "call", "pop"}) =>
        /\ Remaining' <= Remaining
        /\ (tail' # tail => Remaining' < Remaining)

\* C19 (as claimed): in runs where handlers neither push nor construct inside
\* handle, the list is finite and acyclic, a walk visits each node at most
\* once, when process_queue returns the number of walks it made is the number
\* of events that were pending when it was called, and every call of
\* process_queue returns.
C19_QuietProcessQueueTerminates ==
    /\ []Acyclic
    /\ [][WalkShrinks]_vars
    /\ [][(pc \in {"entry", "loop"} /\ pc' = "idle") =>
              Len(dispatched) - atCall[1].walks = atCall[1].pending]_vars
    /\ ((pc = "entry") ~> (pc = "idle"))

\* The part of C19 that the code keeps: the list is finite and acyclic, a walk
\* visits each node at most once, a call of process_queue made while a
\* handler is registered makes one walk per pending event, and every call of
\* process_queue returns unless the process ends.
QuietCallReturnsOrProcessEnds ==
    /\ []Acyclic
    /\ [][WalkShrinks]_vars
    /\ [][(pc = "loop" /\ pc' = "idle") =>
              Len(dispatched) - atCall[1].walks = atCall[1].pending]_vars
    /\ ((pc = "entry") ~> (pc = "idle" \/ status # "running"))

====
